---------------------------- MODULE Spec2Model ----------------------------
(***************************************************************************)
(* A model of the distributive checks: users-and-groups.go, the docker     *)
(* checks (src/unnamed/part_000) and the network checks                    *)
(* (src/unnamed/part_001).                                                 *)
(*                                                                         *)
(* A string is a sequence of symbols.  A symbol is one character ("a",     *)
(* ":", "\n") or a literal phrase of the source that no operation looks    *)
(* inside ("Port not open"); the empty string is << >>.  Every text that   *)
(* the program parses (/etc/group, /proc/net/tcp, command output, numeric  *)
(* parameters, durations, addresses) is spelled character by character.    *)
(***************************************************************************)
EXTENDS Integers, Sequences, FiniteSets, TLC

VARIABLES
    check,        \* the check the dispatcher invoked last ("none": idle)
    parameters,   \* its ordered string parameters
    host,         \* what the host held when the check read it
    raw,          \* the Raw Output the check read (file text, command output)
    outcome,      \* "none" | "returned" | "fatal" (log.Fatal) | "panic"
    exitCode,     \* the returned exit code
    exitMessage,  \* the returned exit message
    fatalMessage, \* what log.Fatal printed before terminating the run
    groups        \* what getGroups returned, when it was called on its own

vars == <<check, parameters, host, raw, outcome, exitCode, exitMessage, fatalMessage, groups>>

-----------------------------------------------------------------------------
(* Bounds of the model.                                                    *)

\* lines of /etc/group
MaxGroupLines == 2
\* rows of /proc/net/tcp after the header
MaxTcpRows == 2
\* lines of `route -n` output
MaxRouteLines == 3
\* lines of `docker images` output
MaxImageLines == 3
\* lines of `docker ps -a` output
MaxPsLines == 3

-----------------------------------------------------------------------------
(* Strings.                                                                *)

\* a literal phrase of the source, as a one-symbol string
S(phrase) == <<phrase>>

\* all sequences over set of length at most n
RECURSIVE SeqsUpTo(_, _)
SeqsUpTo(set, n) ==
    IF n = 0 THEN {<<>>}
    ELSE LET shorter == SeqsUpTo(set, n - 1)
         IN  shorter \cup {Append(q, x) : q \in {r \in shorter : Len(r) = n - 1}, x \in set}

\* the strings of list concatenated
RECURSIVE Concat(_)
Concat(list) == IF list = <<>> THEN <<>> ELSE Head(list) \o Concat(Tail(list))

\* strings.Join
RECURSIVE Join(_, _)
Join(list, sep) ==
    IF list = <<>> THEN <<>>
    ELSE IF Len(list) = 1 THEN list[1]
    ELSE list[1] \o sep \o Join(Tail(list), sep)

\* strings.Contains: sub occurs in s as a contiguous run
Contains(s, sub) ==
    \E i \in 0..(Len(s) - Len(sub)) : SubSeq(s, i + 1, i + Len(sub)) = sub

\* strIn: is str an element of the slice
strIn(str, slice) == \E i \in 1..Len(slice) : slice[i] = str

IsSpace(c) == c \in {" ", "\t", "\n"}

Digits == <<"0", "1", "2", "3", "4", "5", "6", "7", "8", "9", "A", "B", "C", "D", "E", "F">>
LowerHex == <<"a", "b", "c", "d", "e", "f">>

\* the value of digit c in the given base, or -1
DigitVal(c, base) ==
    LET up == {i \in 1..base : Digits[i] = c}
        lo == {i \in 1..6 : base = 16 /\ LowerHex[i] = c}
    IN  IF up # {} THEN (CHOOSE i \in up : TRUE) - 1
        ELSE IF lo # {} THEN (CHOOSE i \in lo : TRUE) + 9
        ELSE -1

\* the value of the digit string s, or -1 when a symbol is no digit or s is empty
RECURSIVE DigitsValue(_, _, _)
DigitsValue(s, base, acc) ==
    IF s = <<>> THEN acc
    ELSE IF DigitVal(Head(s), base) < 0 THEN -1
    ELSE DigitsValue(Tail(s), base, acc * base + DigitVal(Head(s), base))

\* strconv.ParseInt(s, base, 64): an optional sign, then one or more digits.
\* The range error of a value past 64 bits is out of reach: the digit strings
\* of the model have at most four digits.
ParseInt(s, base) ==
    LET signed == s # <<>> /\ Head(s) \in {"+", "-"}
        body   == IF signed THEN Tail(s) ELSE s
        v      == IF body = <<>> THEN -1 ELSE DigitsValue(body, base, 0)
    IN  IF v < 0 THEN [ok |-> FALSE, val |-> 0]
        ELSE [ok |-> TRUE, val |-> IF signed /\ Head(s) = "-" THEN 0 - v ELSE v]

\* fmt.Sprint of an int
RECURSIVE NatToStr(_)
NatToStr(n) == IF n < 10 THEN <<Digits[n + 1]>> ELSE NatToStr(n \div 10) \o <<Digits[(n % 10) + 1]>>

Sprint(n) == IF n < 0 THEN <<"-">> \o NatToStr(0 - n) ELSE NatToStr(n)

\* the k-th smallest element of a set of numbers
Nth(set, k) == CHOOSE p \in set : Cardinality({q \in set : q < p}) = k - 1

\* regexp.Split(s, -1) for a one-character separator: the text between
\* consecutive separators, empty fields kept
Split(s, sep) ==
    LET at    == {i \in 1..Len(s) : s[i] = sep}
        n     == Cardinality(at)
        cut   == [k \in 0..(n + 1) |-> IF k = 0 THEN 0
                                       ELSE IF k = n + 1 THEN Len(s) + 1
                                       ELSE Nth(at, k)]
    IN  [k \in 1..(n + 1) |-> SubSeq(s, cut[k - 1] + 1, cut[k] - 1)]

-----------------------------------------------------------------------------
(* Row/Column Tokenizer, Column Extractor, Diagnostic Formatter and strict  *)
(* integer parse: the helpers the checks call (spec.md sections 4.1-4.5).   *)

\* tokenize under the exact-delimiter policy: literal splitting, empty fields
\* kept, empty text is the empty Table
separateString(rowSep, colSep, str) ==
    IF str = <<>> THEN <<>>
    ELSE LET lines == Split(str, rowSep)
         IN  [i \in 1..Len(lines) |-> Split(lines[i], colSep)]

\* the smallest element of a non-empty set of numbers
Min(set) == CHOOSE p \in set : \A q \in set : p <= q

\* the fields of line from position from on: runs of at least minRun
\* whitespace characters separate them, shorter runs stay inside the field,
\* the ends are trimmed
RECURSIVE FieldsFrom(_, _, _)
FieldsFrom(line, minRun, from) ==
    LET solid == {i \in from..Len(line) : ~IsSpace(line[i])}
        \* where a field can end: a character followed by minRun whitespace
        \* characters, or by whitespace up to the end of the line
        ends  == {e \in solid : \A k \in 1..minRun : e + k > Len(line) \/ IsSpace(line[e + k])}
    IN  IF solid = {} THEN <<>>
        ELSE <<SubSeq(line, Min(solid), Min(ends))>> \o FieldsFrom(line, minRun, Min(ends) + 1)

Fields(line, minRun) == FieldsFrom(line, minRun, 1)

\* tokenize with columns separated by runs of minRun or more whitespace
TokenizeRuns(str, minRun) ==
    IF str = <<>> THEN <<>>
    ELSE LET lines == Split(str, "\n")
         IN  [i \in 1..Len(lines) |-> Fields(lines[i], minRun)]

\* single-whitespace policy
stringToSlice(str) == TokenizeRuns(str, 1)

\* run-of-whitespace policy: two or more whitespace characters
stringToSliceMultispace(str) == TokenizeRuns(str, 2)

\* column(table, index, skipHeader = false); col counts from 0
RECURSIVE getColumn(_, _)
getColumn(col, slice) ==
    IF slice = <<>> THEN <<>>
    ELSE (IF Len(Head(slice)) > col THEN <<Head(slice)[col + 1]>> ELSE <<>>)
         \o getColumn(col, Tail(slice))

\* column(table, index, skipHeader = true): the first Row is excluded
getColumnNoHeader(col, slice) ==
    IF slice = <<>> THEN <<>> ELSE getColumn(col, Tail(slice))

\* the column of a command's output, header dropped
commandColumnNoHeader(col, out) == getColumnNoHeader(col, stringToSlice(out))

\* format(label, wanted, found)
genericError(label, wanted, found) ==
    [exitCode |-> 1,
     exitMessage |-> label \o S("\n\tWanted: ") \o wanted \o S("\n\tFound: ")
                     \o (IF found = <<>> THEN S("(nothing)") ELSE Join(found, S(", ")))]

\* the strict integer parse of a numeric parameter
parseMyInt(str) == ParseInt(str, 10)

-----------------------------------------------------------------------------
(* How one invocation ends.                                                *)

Returned(code, msg) ==
    [outcome |-> "returned", exitCode |-> code, exitMessage |-> msg, fatalMessage |-> <<>>]

ReturnedError(err) == Returned(err.exitCode, err.exitMessage)

\* log.Fatal(msg): the message is printed and the process exits
Fatal(msg) ==
    [outcome |-> "fatal", exitCode |-> 0 - 1, exitMessage |-> <<>>, fatalMessage |-> msg]

\* a run-time panic (index or slice bounds out of range)
Panic ==
    [outcome |-> "panic", exitCode |-> 0 - 1, exitMessage |-> <<>>, fatalMessage |-> <<>>]

-----------------------------------------------------------------------------
(* users-and-groups.go: /etc/group.                                        *)

Alice == <<"a", "l", "i", "c", "e">>
Bob == <<"b", "o", "b">>
Sudo == <<"s", "u", "d", "o">>
Wheel == <<"w", "h", "e", "e", "l">>

\* One line of /etc/group as the host wrote it: the group's name, its id (a
\* number, or -1 for an id field that is no number), its members, and how many
\* colon-separated fields the line has (0: a blank line; 5: a trailing field).
GroupLine(name, gid, members, nfields) ==
    [name |-> name, gid |-> gid, members |-> members, nfields |-> nfields]

GroupLines ==
    { GroupLine(Sudo, 27, <<Alice>>, 4),
      GroupLine(Wheel, 10, <<Alice, Bob>>, 4),
      GroupLine(Alice, 1000, <<>>, 4),
      GroupLine(Alice, 5, <<Alice>>, 5),
      GroupLine(Sudo, 27, <<Bob>>, 3),
      GroupLine(Bob, 0 - 1, <<Alice>>, 4),
      GroupLine(Bob, 7, <<>>, 0) }

\* the text of one line of /etc/group
GroupLineText(l) ==
    LET gidText == IF l.gid < 0 THEN <<"z", "z">> ELSE Sprint(l.gid)
        fields  == <<l.name, <<"x">>, gidText, Join(l.members, <<",">>), <<"e">>>>
    IN  Join(SubSeq(fields, 1, l.nfields), <<":">>)

\* the text of /etc/group
GroupFileText(lines) == Join([i \in 1..Len(lines) |-> GroupLineText(lines[i])], <<"\n">>)

\* the hosts a group check can meet: /etc/group with some lines, or unreadable
GroupHosts ==
    {[readable |-> TRUE, lines |-> ls] : ls \in SeqsUpTo(GroupLines, MaxGroupLines) \ {<<>>}}
    \cup {[readable |-> FALSE, lines |-> <<>>]}

\* fileToString("/etc/group"): the text, when the file can be read
ReadGroupFile(h) == [readable |-> h.readable,
                     text |-> IF h.readable THEN GroupFileText(h.lines) ELSE <<>>]

\* only lines that have all fields
HasAllFields(line) == Len(line) > 3

\* GroupOf that does not split the member field
GroupOf_NoSplit(line, gid) == [Name |-> line[1], Id |-> gid, Users |-> <<line[4]>>]

\* the Group of a line whose id parsed as gid
GroupOf(line, gid) == [Name |-> line[1], Id |-> gid, Users |-> Split(line[4], ",")]

RECURSIVE getGroupsFrom(_, _)
getGroupsFrom(lines, acc) ==
    IF lines = <<>> THEN [fatal |-> FALSE, msg |-> <<>>, groups |-> acc]
    ELSE LET line == Head(lines)
             gid  == ParseInt(line[3], 10)
         IN  IF HasAllFields(line)
             THEN IF ~gid.ok
                  THEN [fatal |-> TRUE,
                        msg |-> S("Could not parse ID for group: ") \o line[1],
                        groups |-> acc]
                  ELSE getGroupsFrom(Tail(lines), Append(acc, GroupOf(line, gid.val)))
             ELSE getGroupsFrom(Tail(lines), acc)

\* getGroups on what fileToString("/etc/group") gives
getGroups(file) ==
    IF ~file.readable THEN [fatal |-> TRUE, msg |-> S("Couldn't read file"), groups |-> <<>>]
    ELSE getGroupsFrom(separateString("\n", ":", file.text), <<>>)

\* groupNotFound, given what its own getGroups call returned
groupNotFound(name, got) ==
    IF got.fatal THEN Fatal(got.msg)
    ELSE ReturnedError(genericError(S("Group not found"), name,
                                    [i \in 1..Len(got.groups) |-> got.groups[i].Name]))

GroupExistsResult(params, data) ==
    LET got == getGroups(data)
    IN  IF Len(params) < 1 THEN Panic
        ELSE IF got.fatal THEN Fatal(got.msg)
        ELSE IF \E i \in 1..Len(got.groups) : got.groups[i].Name = params[1]
             THEN Returned(0, <<>>)
        ELSE groupNotFound(params[1], got)

\* the group UserInGroup looks for
UserInGroupGroup(params) == params[1]

\* the loop of UserInGroup over groups from index i
RECURSIVE UserInGroupLoop(_, _, _, _)
UserInGroupLoop(user, group, got, i) ==
    IF i > Len(got.groups) THEN groupNotFound(group, got)
    ELSE IF got.groups[i].Name = group
         THEN IF strIn(user, got.groups[i].Users)
              THEN Returned(0, <<>>)
              ELSE ReturnedError(genericError(S("User not found in group"), user,
                                              got.groups[i].Users))
    ELSE UserInGroupLoop(user, group, got, i + 1)

UserInGroupResult(params, data) ==
    LET got == getGroups(data)
    IN  IF Len(params) < 1 THEN Panic
        ELSE IF got.fatal THEN Fatal(got.msg)
        ELSE UserInGroupLoop(params[1], UserInGroupGroup(params), got, 1)

RECURSIVE GroupIdLoop(_, _, _, _)
GroupIdLoop(name, id, got, i) ==
    IF i > Len(got.groups) THEN groupNotFound(name, got)
    ELSE IF got.groups[i].Name = name
         THEN IF got.groups[i].Id = id
              THEN Returned(0, <<>>)
              ELSE ReturnedError(genericError(S("Group does not have expected ID"),
                                              Sprint(id), <<Sprint(got.groups[i].Id)>>))
    ELSE GroupIdLoop(name, id, got, i + 1)

GroupIdResult(params, data) ==
    LET id  == parseMyInt(params[2])
        got == getGroups(data)
    IN  IF Len(params) < 2 THEN Panic
        ELSE IF ~id.ok THEN Fatal(S("Could not parse int: ") \o params[2])
        ELSE IF got.fatal THEN Fatal(got.msg)
        ELSE GroupIdLoop(params[1], id.val, got, 1)

-----------------------------------------------------------------------------
(* users-and-groups.go: the user directory.                                *)

Root == [Uid |-> <<"0">>, Gid |-> <<"0">>, Username |-> S("root"),
         Name |-> S("root"), HomeDir |-> S("/root")]
AliceUser == [Uid |-> <<"1", "0">>, Gid |-> <<"5">>, Username |-> Alice,
              Name |-> S("Alice A"), HomeDir |-> S("/home/alice")]
\* a user whose name is the digits of another user's id
NumberUser == [Uid |-> <<"7">>, Gid |-> <<"5">>, Username |-> <<"1", "0">>,
               Name |-> <<>>, HomeDir |-> S("/")]

\* the hosts a user check can meet: the users of the directory
UserHosts == {[users |-> db] : db \in SUBSET {Root, AliceUser, NumberUser}}

UserFields == {"Uid", "Gid", "Username", "Name", "HomeDir"}

\* user.LookupId: the argument must be a number, the user has that uid
LookupId(uid, db) ==
    LET n == ParseInt(uid, 10)
    IN  {u \in db : n.ok /\ ParseInt(u.Uid, 10).val = n.val}

\* user.Lookup
Lookup(username, db) == {u \in db : u.Username = username}

\* lookupUser: the users found (none: an error)
lookupUser(usernameOrUid, db) ==
    IF LookupId(usernameOrUid, db) # {} THEN LookupId(usernameOrUid, db)
    ELSE Lookup(usernameOrUid, db)

\* userHasField: err, or fatal with a message, or the comparison
userHasField(usernameOrUid, fieldName, givenValue, db) ==
    LET found == lookupUser(usernameOrUid, db)
        user  == CHOOSE u \in found : TRUE
    IN  IF found = {} THEN [err |-> TRUE, fatal |-> FALSE, bool |-> FALSE]
        ELSE IF fieldName \notin UserFields THEN [err |-> FALSE, fatal |-> TRUE, bool |-> FALSE]
        ELSE [err |-> FALSE, fatal |-> FALSE, bool |-> user[fieldName] = givenValue]

\* genericUserField that drops the message of a field mismatch
genericUserField_NoMessage(usernameOrUid, fieldName, fieldValue, db) ==
    LET has == userHasField(usernameOrUid, fieldName, fieldValue, db)
    IN  IF has.fatal
        THEN Fatal(S("Failure during reflection: Field is not a string:")
                   \o S("\n\tField name: ") \o S(fieldName))
        ELSE IF has.err THEN Returned(1, S("User does not exist: ") \o usernameOrUid)
        ELSE IF has.bool THEN Returned(0, <<>>)
        ELSE Returned(1, <<>>)

\* genericUserField
genericUserField(usernameOrUid, fieldName, fieldValue, db) ==
    LET has == userHasField(usernameOrUid, fieldName, fieldValue, db)
    IN  IF has.fatal
        THEN Fatal(S("Failure during reflection: Field is not a string:")
                   \o S("\n\tField name: ") \o S(fieldName))
        ELSE IF has.err THEN Returned(1, S("User does not exist: ") \o usernameOrUid)
        ELSE IF has.bool THEN Returned(0, <<>>)
        ELSE Returned(1, S("User does not have expected ") \o S(fieldName) \o S(": ")
                         \o S("\nUser: ") \o usernameOrUid
                         \o S("\nGiven: ") \o fieldValue)

UserExistsResult(params, db) ==
    IF Len(params) < 1 THEN Panic
    ELSE IF lookupUser(params[1], db) # {} THEN Returned(0, <<>>)
    ELSE Returned(1, S("User does not exist: ") \o params[1])

\* UserHasUID, UserHasGID, UserHasUsername, UserHasName, UserHasHomeDir
UserHasResult(fieldName, params, db) ==
    IF Len(params) < 2 THEN Panic
    ELSE genericUserField(params[1], fieldName, params[2], db)

-----------------------------------------------------------------------------
(* Network checks (src/unnamed/part_001): /proc/net/tcp.                   *)

\* a port as the kernel prints it: four upper-case hexadecimal digits
ToHex4(n) ==
    <<Digits[((n \div 4096) % 16) + 1], Digits[((n \div 256) % 16) + 1],
      Digits[((n \div 16) % 16) + 1], Digits[(n % 16) + 1]>>

\* One row of /proc/net/tcp as the kernel wrote it: a socket with a local
\* port ("full"), a row cut after its first column ("short"), or a row whose
\* second column holds no port ("noport").
TcpRows ==
    { [kind |-> "full", port |-> 8080], [kind |-> "full", port |-> 22],
      [kind |-> "short", port |-> 0], [kind |-> "noport", port |-> 0] }

TcpHeaderText == <<" ", " ", "s", "l", " ", " ", "l", "o", "c", "a", "l", "_", "a", "d", "d", "r", "e", "s", "s", " ", "r", "e", "m", "_", "a", "d", "d", "r", "e", "s", "s">>

TcpRowText(r) ==
    IF r.kind = "full"
    THEN <<" ", " ", " ", "0", ":">> \o <<" ", "0", "1", "0", "0", "0", "0", "7", "F">> \o <<":">> \o ToHex4(r.port) \o <<" ", "0", "0", "0", "0", "0", "0", "0", "0", ":", "0", "0", "0", "0">>
    ELSE IF r.kind = "short" THEN <<" ", " ", " ", "0", ":">>
    ELSE <<" ", " ", " ", "0", ":">> \o <<" ", "0", "1", "0", "0", "0", "0", "7", "F">> \o <<" ", "0", "0", "0", "0", "0", "0", "0", "0", ":", "0", "0", "0", "0">>

\* the text of /proc/net/tcp: the header line, then one line per row
TcpFileText(rows) ==
    Concat([i \in 1..Len(rows) + 1 |->
               (IF i = 1 THEN TcpHeaderText ELSE TcpRowText(rows[i - 1])) \o <<"\n">>])

\* the hosts Port can meet: /proc/net/tcp with some rows, empty, or unreadable
TcpHosts ==
    {[readable |-> TRUE, empty |-> FALSE, rows |-> rs] : rs \in SeqsUpTo(TcpRows, MaxTcpRows)}
    \cup {[readable |-> TRUE, empty |-> TRUE, rows |-> <<>>],
          [readable |-> FALSE, empty |-> TRUE, rows |-> <<>>]}

\* fileToString("/proc/net/tcp")
ReadTcpFile(h) == [readable |-> h.readable,
                   text |-> IF h.empty THEN <<>> ELSE TcpFileText(h.rows)]

UpperHex == {Digits[i] : i \in 1..16}

\* portRe.FindString: the leftmost ":" followed by four of [0-9A-F], or ""
RECURSIVE FindPort(_, _)
FindPort(address, i) ==
    IF i + 4 > Len(address) THEN <<>>
    ELSE IF address[i] = ":" /\ \A k \in 1..4 : address[i + k] \in UpperHex
         THEN SubSeq(address, i, i + 4)
    ELSE FindPort(address, i + 1)

\* the hex port of one local address, if it has one
HexPortOf(address) ==
    IF FindPort(address, 1) # <<>> THEN <<Tail(FindPort(address, 1))>> ELSE <<>>

RECURSIVE HexPortsOf(_)
HexPortsOf(addresses) ==
    IF addresses = <<>> THEN <<>>
    ELSE HexPortOf(Head(addresses)) \o HexPortsOf(Tail(addresses))

\* the column of /proc/net/tcp that getHexPorts reads
LocalAddressColumn == 1

getHexPorts(data) == HexPortsOf(getColumnNoHeader(LocalAddressColumn, stringToSlice(data)))

\* strHexToDecimal that reads the port in base 10
strHexToDecimal_Base10(hex) == ParseInt(hex, 10)

\* strHexToDecimal
strHexToDecimal(hex) == ParseInt(hex, 16)

\* getOpenPorts: the ports, or fatal when one is no hex number
getOpenPorts(data) ==
    LET hex == getHexPorts(data)
    IN  [fatal |-> \E i \in 1..Len(hex) : ~strHexToDecimal(hex[i]).ok,
         ports |-> [i \in 1..Len(hex) |-> strHexToDecimal(hex[i]).val]]

PortResult(params, file) ==
    LET port == parseMyInt(params[1])
        open == getOpenPorts(file.text)
    IN  IF Len(params) < 1 THEN Panic
        ELSE IF ~port.ok THEN Fatal(S("Could not parse int: ") \o params[1])
        ELSE IF ~file.readable THEN Fatal(S("Couldn't read file"))
        ELSE IF open.fatal THEN Fatal(S("Couldn't parse hex number "))
        ELSE IF \E i \in 1..Len(open.ports) : open.ports[i] = port.val
             THEN Returned(0, <<>>)
        ELSE ReturnedError(genericError(S("Port not open"), Sprint(port.val),
                                        [i \in 1..Len(open.ports) |-> Sprint(open.ports[i])]))

-----------------------------------------------------------------------------
(* Network checks: interfaces and their addresses.                         *)

\* interfaces per host
MaxIfaces == 2

\* an address of an interface: its Go type, its IP version and its text
Lo4 == [type |-> "IPNet", ver |-> 4, text |-> S("127.0.0.1")]
Lo6 == [type |-> "IPNet", ver |-> 6, text |-> S("::1")]
Eth4 == [type |-> "IPAddr", ver |-> 4, text |-> S("10.0.0.5")]
Odd4 == [type |-> "other", ver |-> 4, text |-> S("10.0.0.9")]

Lo == [Name |-> S("lo"), up |-> TRUE, addrsErr |-> FALSE, addrs |-> <<Lo4, Lo6>>]
Eth0 == [Name |-> S("eth0"), up |-> FALSE, addrsErr |-> FALSE, addrs |-> <<Eth4, Odd4>>]
Eth1 == [Name |-> S("eth1"), up |-> TRUE, addrsErr |-> TRUE, addrs |-> <<>>]

\* the hosts an interface check can meet: net.Interfaces fails, or lists some
IfaceHosts ==
    {[err |-> FALSE, ifaces |-> is] : is \in SeqsUpTo({Lo, Eth0, Eth1}, MaxIfaces)}
    \cup {[err |-> TRUE, ifaces |-> <<>>]}

IfacesFatal == Fatal(S("Could not read network interfaces:\n\t"))

\* the elements of list that satisfy keep, a sequence of booleans
RECURSIVE Filter(_, _)
Filter(list, keep) ==
    IF list = <<>> THEN <<>>
    ELSE (IF Head(keep) THEN <<Head(list)>> ELSE <<>>) \o Filter(Tail(list), Tail(keep))

InterfaceResult(params, h) ==
    LET interfaces == [i \in 1..Len(h.ifaces) |-> h.ifaces[i].Name]
    IN  IF Len(params) < 1 THEN Panic
        ELSE IF h.err THEN IfacesFatal
        ELSE IF strIn(params[1], interfaces) THEN Returned(0, <<>>)
        ELSE ReturnedError(genericError(S("Interface does not exist"), params[1], interfaces))

UpResult(params, h) ==
    LET upInterfaces == Filter([i \in 1..Len(h.ifaces) |-> h.ifaces[i].Name],
                               [i \in 1..Len(h.ifaces) |-> h.ifaces[i].up])
    IN  IF Len(params) < 1 THEN Panic
        ELSE IF h.err THEN IfacesFatal
        ELSE IF strIn(params[1], upInterfaces) THEN Returned(0, <<>>)
        ELSE ReturnedError(genericError(S("Interface is not up"), params[1], upInterfaces))

\* ip.To4().String() for version 4, ip.To16().String() for version 6
AddressString(addr, version) ==
    IF addr.type \notin {"IPNet", "IPAddr"} THEN S("<nil>")
    ELSE IF version = 4 /\ addr.ver # 4 THEN S("<nil>")
    ELSE addr.text

\* getInterfaceIPs: the addresses of the first interface called name
RECURSIVE getInterfaceIPsFrom(_, _, _)
getInterfaceIPsFrom(name, version, ifaces) ==
    IF ifaces = <<>> THEN [fatal |-> FALSE, msg |-> <<>>, ips |-> <<>>]
    ELSE IF Head(ifaces).Name = name
         THEN IF Head(ifaces).addrsErr
              THEN [fatal |-> TRUE,
                    msg |-> S("Could not get network addressed from interface: ")
                            \o S("\n\tInterface name: ") \o name,
                    ips |-> <<>>]
              ELSE [fatal |-> FALSE, msg |-> <<>>,
                    ips |-> [i \in 1..Len(Head(ifaces).addrs) |->
                                AddressString(Head(ifaces).addrs[i], version)]]
    ELSE getInterfaceIPsFrom(name, version, Tail(ifaces))

getInterfaceIPs(name, version, h) ==
    IF version # 4 /\ version # 6
    THEN [fatal |-> TRUE,
          msg |-> S("Misconfigured JSON: Unsupported IP version: ") \o Sprint(version),
          ips |-> <<>>]
    ELSE IF h.err THEN [fatal |-> TRUE, msg |-> IfacesFatal.fatalMessage, ips |-> <<>>]
    ELSE getInterfaceIPsFrom(name, version, h.ifaces)

getIPWorker(name, address, version, h) ==
    LET got == getInterfaceIPs(name, version, h)
    IN  IF got.fatal THEN Fatal(got.msg)
        ELSE IF strIn(address, got.ips) THEN Returned(0, <<>>)
        ELSE ReturnedError(genericError(S("Interface does not have IP"), address, got.ips))

Ip4Result(params, h) ==
    IF Len(params) < 2 THEN Panic ELSE getIPWorker(params[1], params[2], 4, h)

Ip6Result(params, h) ==
    IF Len(params) < 2 THEN Panic ELSE getIPWorker(params[1], params[2], 6, h)

-----------------------------------------------------------------------------
(* Network checks: the kernel routing table, `route -n`.                   *)

ZeroIP == <<"0", ".", "0", ".", "0", ".", "0">>
GwIP == <<"1", "0", ".", "0", ".", "0", ".", "1">>
NetIP == <<"1", "0", ".", "0", ".", "0", ".", "0">>
Eth0Name == <<"e", "t", "h", "0">>
Eth1Name == <<"e", "t", "h", "1">>

\* One line of `route -n` output: the banner, the column header, a route (its
\* destination, gateway and interface) or a line cut after its first column.
RouteLine(kind, dest, gw, iface) == [kind |-> kind, dest |-> dest, gw |-> gw, iface |-> iface]

BannerLine == RouteLine("banner", <<>>, <<>>, <<>>)
HeaderLine == RouteLine("header", <<>>, <<>>, <<>>)
DefaultRoute == RouteLine("route", ZeroIP, GwIP, Eth0Name)
LocalRoute == RouteLine("route", NetIP, ZeroIP, Eth1Name)
ShortLine == RouteLine("short", NetIP, <<>>, <<>>)

RouteLines == {BannerLine, HeaderLine, DefaultRoute, LocalRoute, ShortLine}

RouteLineText(l) ==
    IF l.kind = "banner" THEN <<"K", "e", "r", "n", "e", "l", " ", "I", "P", " ", "r", "o", "u", "t", "i", "n", "g", " ", "t", "a", "b", "l", "e">>
    ELSE IF l.kind = "header"
         THEN <<"D", "e", "s", "t", "i", "n", "a", "t", "i", "o", "n", " ", " ", "G", "a", "t", "e", "w", "a", "y", " ", " ", "G", "e", "n", "m", "a", "s", "k", " ", " ", "F", "l", "a", "g", "s", " ", "M", "e", "t", "r", "i", "c", " ", "R", "e", "f", " ", " ", "U", "s", "e", " ", "I", "f", "a", "c", "e">>
    ELSE IF l.kind = "short" THEN l.dest
    ELSE l.dest \o <<" ", " ">> \o l.gw \o <<" ", " ", "0", ".", "0", ".", "0", ".", "0", " ", " ", "U", "G", " ", " ", "0", " ", " ", "0", " ", " ", "0", " ">> \o l.iface

\* the output of `route -n`: every line ends with a newline
RouteText(lines) == Concat([i \in 1..Len(lines) |-> RouteLineText(lines[i]) \o <<"\n">>])

\* the hosts a routing check can meet: `route -n` fails, or prints some lines
RouteHosts ==
    {[cmdOk |-> TRUE, lines |-> ls] : ls \in SeqsUpTo(RouteLines, MaxRouteLines)}
    \cup {[cmdOk |-> FALSE, lines |-> <<>>]}

\* the combined output of `route -n`
RunRoute(h) == [ok |-> h.cmdOk, out |-> IF h.cmdOk THEN RouteText(h.lines) ELSE <<>>]

\* column[1:] of a slice: out of range when the slice is empty
DropFirst(column) ==
    IF Len(column) < 1 THEN [outcome |-> "panic", col |-> <<>>]
    ELSE [outcome |-> "ok", col |-> Tail(column)]

\* routingTableColumn on what `route -n` gave
routingTableColumn(column, cmd) ==
    IF ~cmd.ok THEN [outcome |-> "fatal", col |-> <<>>]
    ELSE DropFirst(commandColumnNoHeader(column, cmd.out))

CommandFatal == Fatal(S("Error while executing command"))

routingTableMatch(col, str, cmd) ==
    LET column == routingTableColumn(col, cmd)
    IN  IF column.outcome = "fatal" THEN CommandFatal
        ELSE IF column.outcome = "panic" THEN Panic
        ELSE IF strIn(str, column.col) THEN Returned(0, <<>>)
        ELSE ReturnedError(genericError(S("Not found in routing table"), str, column.col))

\* the columns of `route -n` the checks read
DestinationColumn == 0
GatewayColumn == 1
IfaceColumn == 7

RoutingTableDestinationResult(params, cmd) ==
    IF Len(params) < 1 THEN Panic ELSE routingTableMatch(DestinationColumn, params[1], cmd)

RoutingTableInterfaceResult(params, cmd) ==
    IF Len(params) < 1 THEN Panic ELSE routingTableMatch(IfaceColumn, params[1], cmd)

RoutingTableGatewayResult(params, cmd) ==
    IF Len(params) < 1 THEN Panic ELSE routingTableMatch(GatewayColumn, params[1], cmd)

\* getGatewayAddress: the first gateway IP that is not 0.0.0.0
RECURSIVE getGatewayAddress(_)
getGatewayAddress(ips) ==
    IF ips = <<>> THEN ZeroIP
    ELSE IF Head(ips) # ZeroIP THEN Head(ips)
    ELSE getGatewayAddress(Tail(ips))

GatewayResult(params, cmd) ==
    LET ips == routingTableColumn(GatewayColumn, cmd)
    IN  IF Len(params) < 1 THEN Panic
        ELSE IF ips.outcome = "fatal" THEN CommandFatal
        ELSE IF ips.outcome = "panic" THEN Panic
        ELSE IF params[1] = getGatewayAddress(ips.col) THEN Returned(0, <<>>)
        ELSE ReturnedError(genericError(S("Gateway does not have address"), params[1],
                                        <<getGatewayAddress(ips.col)>>))

\* the column getGatewayInterface reads the interface names from
GatewayInterfaceNamesColumn == 1

\* the loop of getGatewayInterface from index i (counted from 0): the
\* interface, or how the loop ended the process
RECURSIVE getGatewayInterfaceLoop(_, _, _)
getGatewayInterfaceLoop(ips, names, i) ==
    IF i >= Len(ips) THEN [outcome |-> "ok", iface |-> <<>>]
    ELSE IF ips[i + 1] # ZeroIP
         THEN IF Len(names) < i THEN [outcome |-> "fatal", iface |-> <<>>]
              ELSE IF i >= Len(names) THEN [outcome |-> "panic", iface |-> <<>>]
              ELSE [outcome |-> "ok", iface |-> names[i + 1]]
    ELSE getGatewayInterfaceLoop(ips, names, i + 1)

\* getGatewayInterface; both columns come from the same `route -n` output
\* (the table does not change between the two runs of the command)
getGatewayInterface(cmd) ==
    LET ips   == routingTableColumn(GatewayColumn, cmd)
        names == routingTableColumn(GatewayInterfaceNamesColumn, cmd)
    IN  IF ips.outcome # "ok" THEN [outcome |-> ips.outcome, iface |-> <<>>]
        ELSE IF names.outcome # "ok" THEN [outcome |-> names.outcome, iface |-> <<>>]
        ELSE getGatewayInterfaceLoop(ips.col, names.col, 0)

GatewayInterfaceResult(params, cmd) ==
    LET got == getGatewayInterface(cmd)
    IN  IF Len(params) < 1 THEN Panic
        ELSE IF got.outcome = "fatal" THEN (IF cmd.ok THEN Fatal(<<>>) ELSE CommandFatal)
        ELSE IF got.outcome = "panic" THEN Panic
        ELSE IF params[1] = got.iface THEN Returned(0, <<>>)
        ELSE ReturnedError(genericError(S("Default gateway does not operate on interface"),
                                        params[1], <<got.iface>>))

-----------------------------------------------------------------------------
(* Network checks: name resolution and connections.                        *)

HostH == <<"h">>
HostG == <<"g">>

\* the hosts a name or connection check can meet: the names that resolve, and
\* whether a connection attempt to a resolved address succeeds
NetHosts == {[names |-> ns, dialOk |-> d] : ns \in {{}, {HostH}}, d \in BOOLEAN}

HostResult(params, h) ==
    IF Len(params) < 1 THEN Panic
    ELSE IF params[1] \in h.names THEN Returned(0, <<>>)
    ELSE Returned(1, S("Host cannot be resolved: ") \o params[1])

\* the index of the last ":" of s, or 0
LastColon(s) ==
    LET at == {i \in 1..Len(s) : s[i] = ":"}
    IN  IF at = {} THEN 0 ELSE CHOOSE i \in at : \A j \in at : j <= i

MaxPort == 65535

\* net.ResolveTCPAddr / net.ResolveUDPAddr: host:port with a numeric port and
\* a host that is empty or resolves
ResolveAddr(address, h) ==
    LET colon == LastColon(address)
        name  == SubSeq(address, 1, colon - 1)
        port  == ParseInt(SubSeq(address, colon + 1, Len(address)), 10)
    IN  /\ colon > 0
        /\ port.ok /\ port.val >= 0 /\ port.val <= MaxPort
        /\ (name = <<>> \/ name \in h.names)

DurationUnits == {<<"n", "s">>, <<"u", "s">>, <<"m", "s">>, <<"s">>, <<"m">>, <<"h">>}

\* the number of leading symbols of s that are decimal digits
RECURSIVE LeadingDigits(_)
LeadingDigits(s) ==
    IF s = <<>> \/ DigitVal(Head(s), 10) < 0 THEN 0 ELSE 1 + LeadingDigits(Tail(s))

\* the number of leading symbols of s that are neither a digit nor "."
RECURSIVE LeadingUnit(_)
LeadingUnit(s) ==
    IF s = <<>> \/ Head(s) = "." \/ DigitVal(Head(s), 10) >= 0 THEN 0
    ELSE 1 + LeadingUnit(Tail(s))

\* the number-unit pairs of a duration: ok, and whether some number is not 0
RECURSIVE DurationParts(_, _)
DurationParts(s, nonzero) ==
    IF s = <<>> THEN [ok |-> TRUE, nonzero |-> nonzero]
    ELSE LET nd   == LeadingDigits(s)
             rest == SubSeq(s, nd + 1, Len(s))
             nu   == LeadingUnit(rest)
         IN  IF nd = 0 \/ nu = 0 \/ SubSeq(rest, 1, nu) \notin DurationUnits
             THEN [ok |-> FALSE, nonzero |-> FALSE]
             ELSE DurationParts(SubSeq(rest, nu + 1, Len(rest)),
                                nonzero \/ DigitsValue(SubSeq(s, 1, nd), 10, 0) > 0)

\* time.ParseDuration for durations without a fraction: [-+]?([0-9]+[a-z]+)+
\* or "0".  sign is the sign of Nanoseconds(), the only use the code makes of
\* the value besides handing it to DialTimeout.
ParseDuration(s) ==
    LET signed == s # <<>> /\ Head(s) \in {"+", "-"}
        body   == IF signed THEN Tail(s) ELSE s
        parts  == DurationParts(body, FALSE)
    IN  IF body = <<"0">> THEN [ok |-> TRUE, sign |-> 0]
        ELSE IF body = <<>> \/ ~parts.ok THEN [ok |-> FALSE, sign |-> 0]
        ELSE [ok |-> TRUE,
              sign |-> IF ~parts.nonzero THEN 0
                       ELSE IF signed /\ Head(s) = "-" THEN 0 - 1 ELSE 1]

\* the err that canConnect tests at its end: DialTimeout's error when a
\* duration was given; otherwise nil, because the error of DialTCP/DialUDP
\* went to the err that := declared inside the case
canConnectErr(nanoseconds, h) ==
    IF nanoseconds > 0 THEN ~h.dialOk ELSE FALSE

canConnect(address, protocol, timeout, h) ==
    IF protocol \notin {"TCP", "UDP"}
    THEN [fatal |-> TRUE, msg |-> S("Unsupported protocol: ") \o S(protocol), ok |-> FALSE]
    ELSE IF ~ResolveAddr(address, h)
    THEN [fatal |-> TRUE,
          msg |-> S("Could not parse ") \o S(protocol) \o S(" address: ") \o address,
          ok |-> FALSE]
    ELSE [fatal |-> FALSE, msg |-> <<>>, ok |-> ~canConnectErr(timeout.sign, h)]

\* getConnectionWorker that goes on with the zero duration when the timeout
\* does not parse
getConnectionWorker_IgnoresParseError(address, protocol, timeoutstr, h) ==
    LET dur == ParseDuration(timeoutstr)
        can == canConnect(address, protocol, [ok |-> TRUE, sign |-> dur.sign], h)
    IN  IF can.fatal THEN Fatal(can.msg)
        ELSE IF can.ok THEN Returned(0, <<>>)
        ELSE Returned(1, S("Could not connect over ") \o S(protocol) \o S(" to host: ")
                         \o address)

getConnectionWorker(address, protocol, timeoutstr, h) ==
    LET dur == ParseDuration(timeoutstr)
        can == canConnect(address, protocol, dur, h)
    IN  IF ~dur.ok
        THEN Fatal(S("Configuration error: Could not parse duration: ") \o timeoutstr)
        ELSE IF can.fatal THEN Fatal(can.msg)
        ELSE IF can.ok THEN Returned(0, <<>>)
        ELSE Returned(1, S("Could not connect over ") \o S(protocol) \o S(" to host: ")
                         \o address)

ZeroNs == <<"0", "n", "s">>

TCPResult(params, h) ==
    IF Len(params) < 1 THEN Panic ELSE getConnectionWorker(params[1], "TCP", ZeroNs, h)

UDPResult(params, h) ==
    IF Len(params) < 1 THEN Panic ELSE getConnectionWorker(params[1], "UDP", ZeroNs, h)

tcpTimeoutResult(params, h) ==
    IF Len(params) < 2 THEN Panic ELSE getConnectionWorker(params[1], "TCP", params[2], h)

udpTimeoutResult(params, h) ==
    IF Len(params) < 2 THEN Panic ELSE getConnectionWorker(params[1], "UDP", params[2], h)

-----------------------------------------------------------------------------
(* Docker checks (src/unnamed/part_000).                                   *)

Ubuntu == <<"u", "b", "u", "n", "t", "u">>
Nginx == <<"n", "g", "i", "n", "x">>
Redis == <<"r", "e", "d", "i", "s">>
Nonexistent == <<"n", "o", "n", "e", "x", "i", "s", "t", "e", "n", "t", "-", "i", "m", "a", "g", "e">>
Repository == <<"R", "E", "P", "O", "S", "I", "T", "O", "R", "Y">>

\* One line of `docker images` after the header: an image, or a blank line.
ImageRows == {[kind |-> "image", repo |-> Ubuntu], [kind |-> "image", repo |-> Nginx],
              [kind |-> "blank", repo |-> <<>>]}

ImagesHeaderText == Repository \o <<" ", " ", " ", "T", "A", "G", " ", " ", " ", "I", "M", "A", "G", "E", " ", "I", "D">>

ImageRowText(r) ==
    IF r.kind = "blank" THEN <<>> ELSE r.repo \o <<" ", " ", " ", "l", "a", "t", "e", "s", "t", " ", " ", " ", "0", "1", "2", "3", "a", "b", "c">>

\* the output of `docker images`: the header line, then one line per row
ImagesText(rows) ==
    Concat([i \in 1..Len(rows) + 1 |->
               (IF i = 1 THEN ImagesHeaderText ELSE ImageRowText(rows[i - 1])) \o <<"\n">>])

\* the hosts DockerImage can meet: the command fails, prints nothing, or
\* prints its table
ImageHosts ==
    {[cmdOk |-> TRUE, empty |-> FALSE, rows |-> rs] : rs \in SeqsUpTo(ImageRows, MaxImageLines)}
    \cup {[cmdOk |-> TRUE, empty |-> TRUE, rows |-> <<>>],
          [cmdOk |-> FALSE, empty |-> TRUE, rows |-> <<>>]}

\* the combined output of `docker images`
RunImages(h) == [ok |-> h.cmdOk,
                 out |-> IF h.empty THEN <<>> ELSE ImagesText(h.rows)]

\* the column of `docker images` that holds the image names
ImageNameColumn == 0

\* DockerImage that keeps the header row of the table
DockerImageResult_KeepsHeader(params, cmd) ==
    LET images == getColumn(ImageNameColumn, stringToSlice(cmd.out))
    IN  IF Len(params) < 1 THEN Panic
        ELSE IF ~cmd.ok THEN CommandFatal
        ELSE IF strIn(params[1], images) THEN Returned(0, <<>>)
        ELSE ReturnedError(genericError(S("Docker image was not found"), params[1], images))

DockerImageResult(params, cmd) ==
    LET images == commandColumnNoHeader(ImageNameColumn, cmd.out)
    IN  IF Len(params) < 1 THEN Panic
        ELSE IF ~cmd.ok THEN CommandFatal
        ELSE IF strIn(params[1], images) THEN Returned(0, <<>>)
        ELSE ReturnedError(genericError(S("Docker image was not found"), params[1], images))

UpStatus == <<"U", "p", " ", "3", " ", "h", "o", "u", "r", "s">>
ExitedStatus == <<"E", "x", "i", "t", "e", "d", " ", "(", "0", ")", " ", "2", " ", "d", "a", "y", "s", " ", "a", "g", "o">>

\* One line of `docker ps -a` after the header: a container's image and
\* status, and how many columns the line has (2: cut after the image).
PsRows == {[image |-> Ubuntu, status |-> UpStatus, ncols |-> 7],
           [image |-> Nginx, status |-> ExitedStatus, ncols |-> 7],
           [image |-> Nginx, status |-> UpStatus, ncols |-> 7],
           [image |-> Redis, status |-> <<>>, ncols |-> 2]}

PsHeaderText == <<"C", "O", "N", "T", "A", "I", "N", "E", "R", " ", "I", "D", " ", " ", " ", "I", "M", "A", "G", "E", " ", " ", " ", "C", "O", "M", "M", "A", "N", "D", " ", " ", " ", "C", "R", "E", "A", "T", "E", "D", " ", " ", " ", "S", "T", "A", "T", "U", "S", " ", " ", " ", "P", "O", "R", "T", "S", " ", " ", " ", "N", "A", "M", "E", "S">>

PsRowText(r) ==
    LET fields == <<<<"c", "0", "f", "f", "e", "e">>, r.image, <<"\"", "s", "h", " ", "-", "c", "\"">>, <<"2", " ", "d", "a", "y", "s", " ", "a", "g", "o">>, r.status,
                    <<"8", "0", "/", "t", "c", "p">>, <<"w", "e", "b">>>>
    IN  Join(SubSeq(fields, 1, r.ncols), <<" ", " ", " ">>)

\* the output of `docker ps -a`: the header line, then one line per row
PsText(rows) ==
    Concat([i \in 1..Len(rows) + 1 |->
               (IF i = 1 THEN PsHeaderText ELSE PsRowText(rows[i - 1])) \o <<"\n">>])

\* the hosts DockerRunning can meet: the command fails (with or without a
\* permission-denied output), prints nothing, or prints its table
PsHosts ==
    {[err |-> "none", empty |-> FALSE, rows |-> rs] : rs \in SeqsUpTo(PsRows, MaxPsLines)}
    \cup {[err |-> e, empty |-> TRUE, rows |-> <<>>] : e \in {"none", "denied", "other"}}

PermissionDenied == <<"p", "e", "r", "m", "i", "s", "s", "i", "o", "n", " ", "d", "e", "n", "i", "e", "d">>

\* CombinedOutput of `docker ps -a`
RunPs(h) == [err |-> h.err # "none",
             out |-> IF h.err = "denied" THEN <<"G", "o", "t", " ">> \o PermissionDenied
                     ELSE IF h.empty THEN <<>> ELSE PsText(h.rows)]

\* the columns of `docker ps -a` that getRunningContainers reads
PsNameColumn == 1
PsStatusColumn == 4

\* the loop of getRunningContainers over statuses from index i (from 0)
RECURSIVE runningFrom(_, _, _)
runningFrom(names, statuses, i) ==
    IF i >= Len(statuses) THEN <<>>
    ELSE (IF Contains(statuses[i + 1], <<"U", "p">>) /\ Len(names) > i
          THEN <<names[i + 1]>> ELSE <<>>)
         \o runningFrom(names, statuses, i + 1)

\* getRunningContainers: the names, or the message it is fatal with
getRunningContainers(cmd) ==
    LET lines == stringToSliceMultispace(cmd.out)
    IN  IF cmd.err /\ Contains(cmd.out, PermissionDenied)
        THEN [fatal |-> TRUE, msg |-> S("Permission denied when running: docker ps -a"),
              images |-> <<>>]
        ELSE IF cmd.err
        THEN [fatal |-> TRUE, msg |-> S("Error while running docker ps -a") \o S("\n\t"),
              images |-> <<>>]
        ELSE IF Len(lines) < 1 THEN [fatal |-> FALSE, msg |-> <<>>, images |-> <<>>]
        ELSE [fatal |-> FALSE, msg |-> <<>>,
              images |-> runningFrom(getColumnNoHeader(PsNameColumn, lines),
                                     getColumnNoHeader(PsStatusColumn, lines), 0)]

DockerRunningResult(params, cmd) ==
    LET running == getRunningContainers(cmd)
    IN  IF Len(params) < 1 THEN Panic
        ELSE IF running.fatal THEN Fatal(running.msg)
        ELSE IF strIn(params[1], running.images) THEN Returned(0, <<>>)
        ELSE ReturnedError(genericError(S("Docker container not runnning"), params[1],
                                        running.images))

-----------------------------------------------------------------------------
(* The dispatcher invokes one check at a time; a check runs to completion. *)

\* no host has been looked at
NoHost == [none |-> TRUE]

Init ==
    /\ check = "none"
    /\ parameters = <<>>
    /\ host = NoHost
    /\ raw = <<>>
    /\ outcome = "none"
    /\ exitCode = 0 - 1
    /\ exitMessage = <<>>
    /\ fatalMessage = <<>>
    /\ groups = <<>>

\* name runs on params against host h, reads text and ends as r; g is what a
\* direct call of getGroups returned
Invoke(name, params, h, text, r, g) ==
    /\ outcome = "none"
    /\ check' = name
    /\ parameters' = params
    /\ host' = h
    /\ raw' = text
    /\ outcome' = r.outcome
    /\ exitCode' = r.exitCode
    /\ exitMessage' = r.exitMessage
    /\ fatalMessage' = r.fatalMessage
    /\ groups' = g

\* the dispatcher takes the Check Result; nothing of the invocation is kept
NextCheck ==
    /\ outcome = "returned"
    /\ check' = "none"
    /\ parameters' = <<>>
    /\ host' = NoHost
    /\ raw' = <<>>
    /\ outcome' = "none"
    /\ exitCode' = 0 - 1
    /\ exitMessage' = <<>>
    /\ fatalMessage' = <<>>
    /\ groups' = <<>>

GroupNames == {Alice, Bob, Sudo}
IdParams == {<<"2", "7">>, <<"+", "5">>, <<"1", "0", "0", "0">>, <<"x">>, <<>>}

\* a helper that is no check returned to its caller
Called == [outcome |-> "returned", exitCode |-> 0 - 1, exitMessage |-> <<>>, fatalMessage |-> <<>>]

Idle == outcome = "none"

GetGroups ==
    /\ Idle
    /\ \E h \in GroupHosts :
        LET got == getGroups(ReadGroupFile(h))
        IN  Invoke("getGroups", <<>>, h, ReadGroupFile(h).text,
                   IF got.fatal THEN Fatal(got.msg) ELSE Called, got.groups)

GroupExists ==
    /\ Idle
    /\ \E h \in GroupHosts, params \in {<<n>> : n \in GroupNames} \cup {<<>>} :
        Invoke("GroupExists", params, h, ReadGroupFile(h).text,
               GroupExistsResult(params, ReadGroupFile(h)), <<>>)

UserInGroup ==
    /\ Idle
    /\ \E h \in GroupHosts, params \in {<<u, g>> : u \in {Alice, Bob}, g \in GroupNames} :
        Invoke("UserInGroup", params, h, ReadGroupFile(h).text,
               UserInGroupResult(params, ReadGroupFile(h)), <<>>)

GroupId ==
    /\ Idle
    /\ \E h \in GroupHosts, params \in {<<n, id>> : n \in {Alice, Sudo}, id \in IdParams} :
        Invoke("GroupId", params, h, ReadGroupFile(h).text,
               GroupIdResult(params, ReadGroupFile(h)), <<>>)

UserKeys == {S("root"), <<"0">>, <<"+", "0">>, Alice, <<"1", "0">>, Bob}
UserValues == {<<"0">>, <<"7">>, <<"1", "0">>, S("root"), Alice, S("/root"), <<>>}
UserParams == {<<k, v>> : k \in UserKeys, v \in UserValues}

UserExists ==
    /\ Idle
    /\ \E h \in UserHosts, params \in {<<k>> : k \in UserKeys} \cup {<<>>} :
        Invoke("UserExists", params, h, <<>>, UserExistsResult(params, h.users), <<>>)

UserHasUID ==
    /\ Idle
    /\ \E h \in UserHosts, params \in UserParams :
        Invoke("UserHasUID", params, h, <<>>, UserHasResult("Uid", params, h.users), <<>>)

UserHasGID ==
    /\ Idle
    /\ \E h \in UserHosts, params \in UserParams :
        Invoke("UserHasGID", params, h, <<>>, UserHasResult("Gid", params, h.users), <<>>)

UserHasUsername ==
    /\ Idle
    /\ \E h \in UserHosts, params \in UserParams :
        Invoke("UserHasUsername", params, h, <<>>, UserHasResult("Username", params, h.users), <<>>)

UserHasName ==
    /\ Idle
    /\ \E h \in UserHosts, params \in UserParams :
        Invoke("UserHasName", params, h, <<>>, UserHasResult("Name", params, h.users), <<>>)

UserHasHomeDir ==
    /\ Idle
    /\ \E h \in UserHosts, params \in UserParams :
        Invoke("UserHasHomeDir", params, h, <<>>, UserHasResult("HomeDir", params, h.users), <<>>)

PortParams == {<<"8", "0", "8", "0">>, <<"9", "9", "9", "9">>, <<"2", "2">>, <<"+", "2", "2">>, <<"8", "0", "a">>, <<>>}

Port ==
    /\ Idle
    /\ \E h \in TcpHosts, params \in {<<p>> : p \in PortParams} :
        Invoke("Port", params, h, ReadTcpFile(h).text, PortResult(params, ReadTcpFile(h)), <<>>)

IfaceNames == {S("lo"), S("eth0"), S("eth1"), S("wlan0")}
IfaceAddresses == {S("127.0.0.1"), S("::1"), S("10.0.0.5"), S("<nil>")}

Interface ==
    /\ Idle
    /\ \E h \in IfaceHosts, params \in {<<n>> : n \in IfaceNames} :
        Invoke("Interface", params, h, <<>>, InterfaceResult(params, h), <<>>)

Up ==
    /\ Idle
    /\ \E h \in IfaceHosts, params \in {<<n>> : n \in IfaceNames} :
        Invoke("Up", params, h, <<>>, UpResult(params, h), <<>>)

Ip4 ==
    /\ Idle
    /\ \E h \in IfaceHosts, params \in {<<n, a>> : n \in IfaceNames, a \in IfaceAddresses} :
        Invoke("Ip4", params, h, <<>>, Ip4Result(params, h), <<>>)

Ip6 ==
    /\ Idle
    /\ \E h \in IfaceHosts, params \in {<<n, a>> : n \in IfaceNames, a \in IfaceAddresses} :
        Invoke("Ip6", params, h, <<>>, Ip6Result(params, h), <<>>)

\* getIPWorker called with any version number
IPVersions == {4, 5, 6}

GetIPWorker ==
    /\ Idle
    /\ \E h \in IfaceHosts, n \in {S("lo"), S("wlan0")}, a \in {S("::1")}, v \in IPVersions :
        Invoke("getIPWorker", <<n, a, Sprint(v)>>, h, <<>>, getIPWorker(n, a, v, h), <<>>)

RouteParams == {GwIP, ZeroIP, NetIP, Eth0Name, Eth1Name}

Gateway ==
    /\ Idle
    /\ \E h \in RouteHosts, params \in {<<p>> : p \in RouteParams} :
        Invoke("Gateway", params, h, RunRoute(h).out, GatewayResult(params, RunRoute(h)), <<>>)

GatewayInterface ==
    /\ Idle
    /\ \E h \in RouteHosts, params \in {<<p>> : p \in RouteParams \cup {<<>>}} :
        Invoke("GatewayInterface", params, h, RunRoute(h).out,
               GatewayInterfaceResult(params, RunRoute(h)), <<>>)

RoutingTableDestination ==
    /\ Idle
    /\ \E h \in RouteHosts, params \in {<<p>> : p \in RouteParams} :
        Invoke("RoutingTableDestination", params, h, RunRoute(h).out,
               RoutingTableDestinationResult(params, RunRoute(h)), <<>>)

RoutingTableInterface ==
    /\ Idle
    /\ \E h \in RouteHosts, params \in {<<p>> : p \in RouteParams} :
        Invoke("RoutingTableInterface", params, h, RunRoute(h).out,
               RoutingTableInterfaceResult(params, RunRoute(h)), <<>>)

RoutingTableGateway ==
    /\ Idle
    /\ \E h \in RouteHosts, params \in {<<p>> : p \in RouteParams} :
        Invoke("RoutingTableGateway", params, h, RunRoute(h).out,
               RoutingTableGatewayResult(params, RunRoute(h)), <<>>)

Host ==
    /\ Idle
    /\ \E h \in NetHosts, params \in {<<HostH>>, <<HostG>>} :
        Invoke("Host", params, h, <<>>, HostResult(params, h), <<>>)

Addresses == {<<"h", ":", "8", "0">>, <<"g", ":", "8", "0">>, <<":", "8", "0">>, <<"h">>, <<"h", ":", "h", "t", "t", "p">>, <<"h", ":", "7", "0", "0", "0", "0">>}
Timeouts == {ZeroNs, <<"0">>, <<"5", "s">>, <<"1", "m", "3", "0", "s">>, <<"-", "1", "s">>, <<"0", "h", "0", "s">>, <<"5">>, <<"s">>, <<"5", " ", "s">>, <<>>}

TCP ==
    /\ Idle
    /\ \E h \in NetHosts, params \in {<<a>> : a \in Addresses} :
        Invoke("TCP", params, h, <<>>, TCPResult(params, h), <<>>)

UDP ==
    /\ Idle
    /\ \E h \in NetHosts, params \in {<<a>> : a \in Addresses} :
        Invoke("UDP", params, h, <<>>, UDPResult(params, h), <<>>)

TcpTimeout ==
    /\ Idle
    /\ \E h \in NetHosts, params \in {<<a, d>> : a \in Addresses, d \in Timeouts} :
        Invoke("tcpTimeout", params, h, <<>>, tcpTimeoutResult(params, h), <<>>)

UdpTimeout ==
    /\ Idle
    /\ \E h \in NetHosts, params \in {<<a, d>> : a \in Addresses, d \in Timeouts} :
        Invoke("udpTimeout", params, h, <<>>, udpTimeoutResult(params, h), <<>>)

\* getConnectionWorker called with any protocol name
Protocols == {"TCP", "UDP", "ICMP"}

GetConnectionWorker ==
    /\ Idle
    /\ \E h \in NetHosts, a \in {<<"h", ":", "8", "0">>, <<"h">>}, p \in Protocols, d \in {ZeroNs, <<"5", "s">>, <<"5">>} :
        Invoke("getConnectionWorker", <<a, S(p), d>>, h, <<>>,
               getConnectionWorker(a, p, d, h), <<>>)

ImageParams == {Ubuntu, Nginx, Nonexistent, Repository}

DockerImage ==
    /\ Idle
    /\ \E h \in ImageHosts, params \in {<<n>> : n \in ImageParams} :
        Invoke("DockerImage", params, h, RunImages(h).out,
               DockerImageResult(params, RunImages(h)), <<>>)

DockerRunning ==
    /\ Idle
    /\ \E h \in PsHosts, params \in {<<n>> : n \in {Ubuntu, Nginx, Redis}} :
        Invoke("DockerRunning", params, h, RunPs(h).out,
               DockerRunningResult(params, RunPs(h)), <<>>)

Next ==
    \/ NextCheck
    \/ GetGroups
    \/ GroupExists
    \/ UserInGroup
    \/ GroupId
    \/ UserExists
    \/ UserHasUID
    \/ UserHasGID
    \/ UserHasUsername
    \/ UserHasName
    \/ UserHasHomeDir
    \/ Port
    \/ Interface
    \/ Up
    \/ Ip4
    \/ Ip6
    \/ GetIPWorker
    \/ Gateway
    \/ GatewayInterface
    \/ RoutingTableDestination
    \/ RoutingTableInterface
    \/ RoutingTableGateway
    \/ Host
    \/ TCP
    \/ UDP
    \/ TcpTimeout
    \/ UdpTimeout
    \/ GetConnectionWorker
    \/ DockerImage
    \/ DockerRunning

Spec == Init /\ [][Next]_vars

-----------------------------------------------------------------------------
(* What the host holds, read off the host itself and not off the text the  *)
(* checks parse.                                                           *)

\* the lines of /etc/group that have at least 4 colon-separated fields
RECURSIVE FullGroupLines(_)
FullGroupLines(lines) ==
    IF lines = <<>> THEN <<>>
    ELSE (IF Head(lines).nfields >= 4 THEN <<Head(lines)>> ELSE <<>>)
         \o FullGroupLines(Tail(lines))

\* the member field of a line: an empty field is one empty name
MembersOf(l) == IF l.members = <<>> THEN <<<<>>>> ELSE l.members

\* /etc/group is one the system tools would write: ids are numbers and no
\* group is listed twice
GroupFileValid(h) ==
    LET full == FullGroupLines(h.lines)
    IN  /\ h.readable
        /\ \A i \in 1..Len(full) : full[i].gid >= 0
        /\ \A i, j \in 1..Len(full) : full[i].name = full[j].name => i = j

\* the ports of the sockets of /proc/net/tcp, in order
RECURSIVE PortsOf(_)
PortsOf(rows) ==
    IF rows = <<>> THEN <<>>
    ELSE (IF Head(rows).kind = "full" THEN <<Head(rows).port>> ELSE <<>>) \o PortsOf(Tail(rows))

\* the images of `docker images`, in order
RECURSIVE ImagesOf(_)
ImagesOf(rows) ==
    IF rows = <<>> THEN <<>>
    ELSE (IF Head(rows).kind = "image" THEN <<Head(rows).repo>> ELSE <<>>) \o ImagesOf(Tail(rows))

\* `route -n` printed what it always prints: the banner, the column header,
\* then one line per route
RouteOutputValid(h) ==
    /\ h.cmdOk
    /\ Len(h.lines) >= 2
    /\ h.lines[1] = BannerLine
    /\ h.lines[2] = HeaderLine
    /\ \A i \in 3..Len(h.lines) : h.lines[i].kind = "route"

\* the interface of the default gateway: the Iface column of the first route
\* whose gateway is not 0.0.0.0, or "" when there is none
RECURSIVE DefaultGatewayInterface(_)
DefaultGatewayInterface(lines) ==
    IF lines = <<>> THEN <<>>
    ELSE IF Head(lines).kind = "route" /\ Head(lines).gw # ZeroIP THEN Head(lines).iface
    ELSE DefaultGatewayInterface(Tail(lines))

DomainChecks ==
    {"DockerImage", "DockerRunning", "GroupExists", "UserInGroup", "GroupId", "UserExists",
     "UserHasUID", "UserHasGID", "UserHasUsername", "UserHasName", "UserHasHomeDir",
     "Port", "Interface", "Up", "Ip4", "Ip6", "Gateway", "GatewayInterface", "Host",
     "TCP", "UDP", "tcpTimeout", "udpTimeout",
     "RoutingTableDestination", "RoutingTableInterface", "RoutingTableGateway"}

ConnectionChecks == {"TCP", "UDP", "tcpTimeout", "udpTimeout"}

RoutingChecks ==
    {"Gateway", "GatewayInterface", "RoutingTableDestination", "RoutingTableInterface",
     "RoutingTableGateway"}

GroupReaders == {"getGroups", "GroupExists", "UserInGroup", "GroupId"}

-----------------------------------------------------------------------------
(* The claims.                                                             *)

\* C1: whenever a domain check returns, its exit code is 0 or 1, exit code 0
\* comes with the empty message and exit code 1 with a non-empty message.
C1_CheckResultShape ==
    (check \in DomainChecks /\ outcome = "returned") =>
        /\ exitCode \in {0, 1}
        /\ exitCode = 0 => exitMessage = <<>>
        /\ exitCode = 1 => exitMessage # <<>>

\* C1 witness: genericUserField returned a failure for a user that exists
C1_Witness ==
    /\ check = "UserHasGID"
    /\ outcome = "returned"
    /\ exitCode = 1
    /\ parameters[1] = S("root")
    /\ Root \in host.users

\* C2 (as claimed): on a valid /etc/group, UserInGroup([u, g]) returns (0, "")
\* exactly when the line of group g lists u among its members, and when group
\* g exists without u as a member it returns (1, msg) that lists g's members.
C2_UserInGroupDistinctParameters ==
    (check = "UserInGroup" /\ GroupFileValid(host)) =>
        LET u    == parameters[1]
            g    == parameters[2]
            full == FullGroupLines(host.lines)
            at   == {i \in 1..Len(full) : full[i].name = g}
        IN  /\ outcome = "returned"
            /\ exitCode = 0 <=> \E i \in at : strIn(u, MembersOf(full[i]))
            /\ \A i \in at :
                  ~strIn(u, MembersOf(full[i])) =>
                      /\ exitCode = 1
                      /\ exitMessage = genericError(S("User not found in group"), u,
                                                    MembersOf(full[i])).exitMessage

\* C3 (as claimed): a connection check returns (0, "") exactly when the
\* connection attempt succeeded and (1, msg) when the dial failed, with and
\* without a timeout.
C3_ExitCodeFollowsDial ==
    (check \in ConnectionChecks /\ outcome = "returned") =>
        /\ exitCode = 0 <=> host.dialOk
        /\ ~host.dialOk => (exitCode = 1 /\ exitMessage # <<>>)

\* the decimal port parameters of the model
C4Ports == {8080, 9999, 22}

\* C4: Port([p]) with p a decimal integer returns (0, "") exactly when a row
\* after the header has a local address with port p, and otherwise (1, msg)
\* with the decimal open ports as the found list.
C4_PortOpen ==
    \A n \in C4Ports :
        (check = "Port" /\ parameters = <<Sprint(n)>> /\ host.readable) =>
            /\ outcome = "returned"
            /\ exitCode = 0 <=> strIn(n, PortsOf(host.rows))
            /\ exitCode # 0 =>
                  /\ exitCode = 1
                  /\ exitMessage =
                        genericError(S("Port not open"), Sprint(n),
                                     [i \in 1..Len(PortsOf(host.rows)) |->
                                         Sprint(PortsOf(host.rows)[i])]).exitMessage

\* C4 witness: port 8080 (1F90) was found open behind a row that has no port
C4_Witness ==
    /\ check = "Port"
    /\ outcome = "returned"
    /\ exitCode = 0
    /\ parameters = <<<<"8", "0", "8", "0">>>>
    /\ Len(host.rows) = 2
    /\ host.rows[1].kind = "short"

\* C5: DockerImage([name]) returns (0, "") exactly when name is the first
\* column of a row after the header; otherwise it returns (1, msg), msg
\* contains name and lists the images found, never the header's first column.
C5_DockerImage ==
    (check = "DockerImage" /\ host.cmdOk) =>
        LET name   == parameters[1]
            images == ImagesOf(host.rows)
        IN  /\ outcome = "returned"
            /\ exitCode = 0 <=> strIn(name, images)
            /\ exitCode # 0 =>
                  /\ exitCode = 1
                  /\ Contains(exitMessage, name)
                  /\ \A i \in 1..Len(images) : Contains(exitMessage, images[i])
                  /\ exitMessage =
                        genericError(S("Docker image was not found"), name, images).exitMessage
                  /\ name # Repository => ~Contains(exitMessage, Repository)

\* C5 witness: an image that is not there was looked up among two that are
C5_Witness ==
    /\ check = "DockerImage"
    /\ outcome = "returned"
    /\ exitCode = 1
    /\ parameters = <<Nonexistent>>
    /\ ImagesOf(host.rows) = <<Ubuntu, Nginx>>

\* the asserted condition of the invocation is false, its data source is
\* readable and its parameters are well-formed
AssertionFails ==
    \/ /\ check = "GroupExists" /\ Len(parameters) = 1 /\ GroupFileValid(host)
       /\ \A i \in 1..Len(host.lines) :
             host.lines[i].nfields >= 4 => host.lines[i].name # parameters[1]
    \/ /\ check \in ConnectionChecks /\ outcome # "fatal"
       /\ ~host.dialOk
    \/ /\ check = "Port" /\ host.readable
       /\ \E n \in C4Ports : parameters = <<Sprint(n)>> /\ ~strIn(n, PortsOf(host.rows))
    \/ /\ check = "DockerImage" /\ host.cmdOk
       /\ ~strIn(parameters[1], ImagesOf(host.rows))
    \/ /\ check = "RoutingTableGateway" /\ Len(parameters) = 1 /\ host.cmdOk
       /\ \A i \in 1..Len(host.lines) :
             host.lines[i].kind = "route" => host.lines[i].gw # parameters[1]
    \/ /\ check = "GatewayInterface" /\ Len(parameters) = 1 /\ RouteOutputValid(host)
       /\ parameters[1] # DefaultGatewayInterface(host.lines)

\* C6 (as claimed): when the asserted condition is false, the check returns
\* (1, diagnostic message) and does not terminate the process.
C6_AssertionFailureIsReturned ==
    AssertionFails => (outcome = "returned" /\ exitCode = 1 /\ exitMessage # <<>>)

\* the parameters of the model that are no numbers, durations or addresses
BadNumbers == {<<"8", "0", "a">>, <<"x">>, <<>>}
BadDurations == {<<"5">>, <<"s">>, <<"5", " ", "s">>, <<>>}
BadAddresses == {<<"h">>, <<"h", ":", "h", "t", "t", "p">>, <<"h", ":", "7", "0", "0", "0", "0">>}

\* the invocation meets one of the environment/input failures
InputFailure ==
    \/ check = "Port" /\ parameters[1] \in BadNumbers
    \/ check = "GroupId" /\ parameters[2] \in BadNumbers
    \/ /\ check \in GroupReaders
       /\ check = "GroupId" => parameters[2] \notin BadNumbers
       /\ check = "GroupExists" => Len(parameters) = 1
       /\ host.readable
       /\ \E i \in 1..Len(host.lines) : host.lines[i].nfields >= 4 /\ host.lines[i].gid < 0
    \/ check \in {"tcpTimeout", "udpTimeout"} /\ parameters[2] \in BadDurations
    \/ check = "getConnectionWorker" /\ parameters[3] \in BadDurations
    \/ check \in ConnectionChecks /\ parameters[1] \in BadAddresses
    \/ check = "getConnectionWorker" /\ parameters[2] \notin {S("TCP"), S("UDP")}
    \/ check = "getIPWorker" /\ parameters[3] \notin {<<"4">>, <<"6">>}
    \/ check = "DockerRunning" /\ host.err # "none"

\* C7: every environment/input failure terminates the run with a descriptive
\* message, and no Check Result is returned for the invocation.
C7_InputFailureIsFatal ==
    InputFailure =>
        /\ outcome = "fatal"
        /\ fatalMessage # <<>>
        /\ exitCode \notin {0, 1}
        /\ exitMessage = <<>>

\* C7 witness: a timeout that is no duration ended the run
C7_Witness ==
    /\ check = "tcpTimeout"
    /\ parameters = <<<<"h", ":", "8", "0">>, <<"5">>>>
    /\ outcome = "fatal"

\* C8 (as claimed): for any `route -n` output, the routing checks return a
\* Check Result and never abort with an out-of-range access.
C8_RoutingNeverCrashes ==
    (check \in RoutingChecks /\ host.cmdOk /\ Len(parameters) = 1) => outcome = "returned"

\* C9: getGroups yields one Group per line with at least 4 fields, in order,
\* with Name = field 0, Id = the number in field 2 and Users = field 3 split
\* on commas; the other lines yield nothing.
C9_GetGroups ==
    (check = "getGroups" /\ outcome = "returned") =>
        LET full == FullGroupLines(host.lines)
        IN  /\ Len(groups) = Len(full)
            /\ \A k \in 1..Len(full) :
                  /\ groups[k].Name = full[k].name
                  /\ groups[k].Id = full[k].gid
                  /\ Len(groups[k].Users) >= 1
                  /\ \A i \in 1..Len(groups[k].Users) : ~Contains(groups[k].Users[i], <<",">>)
                  /\ Join(groups[k].Users, <<",">>) = Join(full[k].members, <<",">>)
                  /\ full[k].members # <<>> => groups[k].Users = full[k].members

\* C9 witness: wheel:x:10:alice,bob was parsed and a three-field line skipped
C9_Witness ==
    /\ check = "getGroups"
    /\ outcome = "returned"
    /\ Len(host.lines) = 2
    /\ host.lines[1].nfields = 3
    /\ Len(groups) = 1
    /\ groups[1] = [Name |-> Wheel, Id |-> 10, Users |-> <<Alice, Bob>>]

\* C10 (as claimed): GatewayInterface([name]) returns (0, "") exactly when
\* name is the Iface column of the first route whose gateway is not 0.0.0.0.
C10_GatewayInterfaceIsIface ==
    (check = "GatewayInterface" /\ Len(parameters) = 1 /\ RouteOutputValid(host)
        /\ outcome = "returned") =>
        (exitCode = 0 <=> parameters[1] = DefaultGatewayInterface(host.lines))

\* C11 (as claimed): DockerRunning([name]) returns (0, "") exactly when one
\* row after the header has column 1 equal to name and a column 4 that
\* contains "Up"; the name and the status compared come from the same row,
\* also when a row is too short to have a column 4.
C11_DockerRunningSameRow ==
    (check = "DockerRunning" /\ host.err = "none") =>
        /\ outcome = "returned"
        /\ exitCode = 0 <=>
              \E i \in 1..Len(host.rows) :
                  /\ host.rows[i].ncols > PsStatusColumn
                  /\ host.rows[i].image = parameters[1]
                  /\ Contains(host.rows[i].status, <<"U", "p">>)

=============================================================================
